---- MODULE Spec2Model ----
(***************************************************************************)
(* Smart-Price Pro V2.0: the pricing engine (roundTo10, calculatePricing,  *)
(* calculateGpFromTarget) and the App component's synchronization state    *)
(* (input, targetPrice, result, isReverseSync) with its handlers.          *)
(*                                                                         *)
(* Numbers.  The program computes on IEEE-754 doubles.  Here a number is   *)
(* an exact rational n/d in lowest terms, or NaN, +Infinity or -Infinity,  *)
(* with JavaScript's rules for the three special values.  The literal 1.1  *)
(* is the rational 11/10.  Negative zero is identified with zero: every    *)
(* zero denominator of the program is the difference 1 - rate/100 with     *)
(* rate = 100, which is +0, and -0 prints, compares and tests like 0.      *)
(* TLC's integers are 32-bit and TLC stops with an error on overflow, so   *)
(* no value of the model is silently wrong.                                *)
(*                                                                         *)
(* Text.  A string is a sequence of one-character strings, so that         *)
(* Number(text), parseFloat(text), toString() and toFixed(2) are computed  *)
(* digit by digit.                                                         *)
(***************************************************************************)
EXTENDS Integers, Sequences, FiniteSets, TLC

\* ------------------------------------------------------------------------
\* JavaScript numbers
\* ------------------------------------------------------------------------

Abs(x) == IF x < 0 THEN -x ELSE x

RECURSIVE GCD(_, _)
GCD(a, b) == IF b = 0 THEN a ELSE GCD(b, a % b)

\* The finite number n/d (d # 0), in lowest terms with a positive denominator.
Fin(n, d) ==
  LET g == GCD(Abs(n), Abs(d))
      s == IF d < 0 THEN -1 ELSE 1
  IN  [k |-> "fin", n |-> (s * n) \div g, d |-> Abs(d) \div g]

IntNum(n) == [k |-> "fin", n |-> n, d |-> 1]
NaN == [k |-> "nan", n |-> 0, d |-> 1]
PosInf == [k |-> "inf", n |-> 1, d |-> 1]
NegInf == [k |-> "inf", n |-> -1, d |-> 1]
Zero == IntNum(0)

IsNaN(x) == x.k = "nan"
IsFinite(x) == x.k = "fin"

\* -1, 0 or 1; not used on NaN.
Sgn(x) == IF x.n < 0 THEN -1 ELSE IF x.n > 0 THEN 1 ELSE 0

Neg(x) == [x EXCEPT !.n = -x.n]

\* a * b
Mul(a, b) ==
  IF IsNaN(a) \/ IsNaN(b) THEN NaN
  ELSE IF ~IsFinite(a) \/ ~IsFinite(b)
       THEN IF Sgn(a) * Sgn(b) = 0 THEN NaN
            ELSE IF Sgn(a) * Sgn(b) > 0 THEN PosInf ELSE NegInf
  ELSE LET g1 == GCD(Abs(a.n), b.d)
           g2 == GCD(Abs(b.n), a.d)
       IN  Fin((a.n \div g1) * (b.n \div g2), (a.d \div g2) * (b.d \div g1))

\* a / b; a zero divisor is +0.
Div(a, b) ==
  IF IsNaN(a) \/ IsNaN(b) THEN NaN
  ELSE IF ~IsFinite(a)
       THEN IF ~IsFinite(b) THEN NaN
            ELSE IF Sgn(a) * (IF Sgn(b) < 0 THEN -1 ELSE 1) > 0
                 THEN PosInf ELSE NegInf
  ELSE IF ~IsFinite(b) THEN Zero
  ELSE IF b.n = 0
       THEN IF a.n = 0 THEN NaN ELSE IF a.n > 0 THEN PosInf ELSE NegInf
  ELSE Mul(a, Fin(b.d, b.n))

\* a + b
Add(a, b) ==
  IF IsNaN(a) \/ IsNaN(b) THEN NaN
  ELSE IF ~IsFinite(a)
       THEN IF ~IsFinite(b) /\ Sgn(a) # Sgn(b) THEN NaN ELSE a
  ELSE IF ~IsFinite(b) THEN b
  ELSE Fin(a.n * b.d + b.n * a.d, a.d * b.d)

\* a - b
Sub(a, b) == Add(a, Neg(b))

\* a/b < c/d for b, d > 0, by integer parts and then the reciprocals of the
\* remainders, so that no product is formed.
RECURSIVE LtRat(_, _, _, _)
LtRat(a, b, c, d) ==
  LET qa == a \div b
      qc == c \div d
      ra == a % b
      rc == c % d
  IN  IF qa # qc THEN qa < qc
      ELSE IF rc = 0 THEN FALSE
      ELSE IF ra = 0 THEN TRUE
      ELSE LtRat(d, rc, b, ra)

\* a < b; FALSE when either is NaN.
Lt(a, b) ==
  IF IsNaN(a) \/ IsNaN(b) THEN FALSE
  ELSE IF ~IsFinite(a) THEN Sgn(a) < 0 /\ (IsFinite(b) \/ Sgn(b) > 0)
  ELSE IF ~IsFinite(b) THEN Sgn(b) > 0
  ELSE LtRat(a.n, a.d, b.n, b.d)

Gt(a, b) == Lt(b, a)

\* a <= b; FALSE when either is NaN.
Le(a, b) == ~IsNaN(a) /\ ~IsNaN(b) /\ ~Lt(b, a)

\* !x of JavaScript for a number: true for 0 and NaN.
Falsy(x) == IsNaN(x) \/ (IsFinite(x) /\ x.n = 0)

\* Math.round: the nearest integer, a half rounded towards +Infinity.
MathRound(x) ==
  IF IsFinite(x)
  THEN IntNum((x.n \div x.d) + (IF 2 * (x.n % x.d) >= x.d THEN 1 ELSE 0))
  ELSE x

\* ------------------------------------------------------------------------
\* Text: Number(text), parseFloat(text), toString(), toFixed(2)
\* ------------------------------------------------------------------------

DigitChars == <<"0", "1", "2", "3", "4", "5", "6", "7", "8", "9">>
IsDigit(c) == \E i \in 1..10 : DigitChars[i] = c
DigitVal(c) == (CHOOSE i \in 1..10 : DigitChars[i] = c) - 1

Tail2(s) == SubSeq(s, 2, Len(s))

RECURSIVE Pow10(_)
Pow10(e) == IF e = 0 THEN 1 ELSE 10 * Pow10(e - 1)

\* The value of a sequence of digits, read from the left with `acc` so far.
RECURSIVE DigitsVal(_, _)
DigitsVal(s, acc) ==
  IF s = <<>> THEN acc ELSE DigitsVal(Tail2(s), 10 * acc + DigitVal(s[1]))

AllDigits(s) == \A i \in 1..Len(s) : IsDigit(s[i])

\* The unsigned decimal literals: digits, digits "." digits?, "." digits.
IsUnsignedDecimal(s) ==
  \/ Len(s) >= 1 /\ AllDigits(s)
  \/ \E p \in 1..Len(s) :
       /\ s[p] = "."
       /\ Len(s) >= 2
       /\ AllDigits(SubSeq(s, 1, p - 1))
       /\ AllDigits(SubSeq(s, p + 1, Len(s)))

UnsignedDecimalVal(s) ==
  IF AllDigits(s) THEN IntNum(DigitsVal(s, 0))
  ELSE LET p == CHOOSE q \in 1..Len(s) : s[q] = "."
       IN  Fin(DigitsVal(SubSeq(s, 1, p - 1) \o SubSeq(s, p + 1, Len(s)), 0),
               Pow10(Len(s) - p))

HasSign(s) == Len(s) >= 1 /\ s[1] \in {"-", "+"}
Unsigned(s) == IF HasSign(s) THEN Tail2(s) ELSE s

\* A signed decimal literal (StrDecimalLiteral without exponent).
IsDecimal(s) == IsUnsignedDecimal(Unsigned(s))

DecimalVal(s) ==
  IF HasSign(s) /\ s[1] = "-"
  THEN Neg(UnsignedDecimalVal(Unsigned(s)))
  ELSE UnsignedDecimalVal(Unsigned(s))

InfinityText == <<"I", "n", "f", "i", "n", "i", "t", "y">>
NaNText == <<"N", "a", "N">>

\* Number(text): the empty text is 0, a decimal literal is its value, the
\* literal Infinity is infinite, any other text is NaN.  (Surrounding white
\* space, exponents and 0x/0o/0b literals are not among the texts typed.)
Number(s) ==
  IF s = <<>> THEN Zero
  ELSE IF IsDecimal(s) THEN DecimalVal(s)
  ELSE IF Unsigned(s) = InfinityText
       THEN IF s[1] = "-" THEN NegInf ELSE PosInf
  ELSE NaN

\* parseFloat(text): the value of the longest prefix that is a decimal
\* literal; NaN when there is none.
parseFloat(s) ==
  IF Len(Unsigned(s)) >= 8 /\ SubSeq(Unsigned(s), 1, 8) = InfinityText
  THEN IF s[1] = "-" THEN NegInf ELSE PosInf
  ELSE LET ks == {k \in 1..Len(s) : IsDecimal(SubSeq(s, 1, k))}
       IN  IF ks = {} THEN NaN
           ELSE DecimalVal(SubSeq(s, 1, CHOOSE k \in ks : \A j \in ks : j <= k))

\* The decimal digits of a natural number.
RECURSIVE NatText(_)
NatText(n) ==
  IF n < 10 THEN <<DigitChars[n + 1]>>
  ELSE NatText(n \div 10) \o <<DigitChars[(n % 10) + 1]>>

\* Number.prototype.toString() of an integer, NaN or an infinity.  The only
\* number the program prints this way is consumerPrice, a result of
\* roundTo10; a finite non-integer has no case here.
toString(x) ==
  CASE IsNaN(x) -> NaNText
    [] ~IsNaN(x) /\ ~IsFinite(x) ->
         IF Sgn(x) < 0 THEN <<"-">> \o InfinityText ELSE InfinityText
    [] IsFinite(x) /\ x.d = 1 ->
         IF x.n < 0 THEN <<"-">> \o NatText(-x.n) ELSE NatText(x.n)

\* Number.prototype.toFixed(2): the sign, then the integer n nearest to
\* |x| * 100 (the larger n on a tie) printed with two decimals.
toFixed2(x) ==
  CASE IsNaN(x) -> NaNText
    [] ~IsNaN(x) /\ ~IsFinite(x) ->
         IF Sgn(x) < 0 THEN <<"-">> \o InfinityText ELSE InfinityText
    [] IsFinite(x) ->
         LET a == Abs(x.n)
             q == a \div x.d
             r == a % x.d
             n == q * 100 + ((200 * r + x.d) \div (2 * x.d))
         IN  (IF x.n < 0 THEN <<"-">> ELSE <<>>)
               \o NatText(n \div 100) \o <<".">>
               \o <<DigitChars[((n \div 10) % 10) + 1], DigitChars[(n % 10) + 1]>>

\* ------------------------------------------------------------------------
\* Pricing engine
\* ------------------------------------------------------------------------

Ten == IntNum(10)
Hundred == IntNum(100)
One == IntNum(1)
\* the literal 1.1
VatFactor == Fin(11, 10)

\* Math.floor
MathFloor(x) == IF IsFinite(x) THEN IntNum(x.n \div x.d) ELSE x

\* roundTo10 with Math.floor in the place of Math.round.
roundTo10_Floor(v) == Mul(MathFloor(Div(v, Ten)), Ten)

roundTo10(v) == Mul(MathRound(Div(v, Ten)), Ten)

\* The chain with the VAT-inclusive figures rounded after the multiplication.
calculatePricing_RoundsVat(input) ==
  LET mainSupplyNet == roundTo10(Div(input.costPrice, Sub(One, Div(input.mainGpRate, Hundred))))
      mainSupplyVatIncl == roundTo10(Mul(mainSupplyNet, VatFactor))
      wholesalePrice == Div(mainSupplyVatIncl, Sub(One, Div(input.wholesaleMargin, Hundred)))
      consumerPrice == roundTo10(Div(wholesalePrice, Sub(One, Div(input.consumerMargin, Hundred))))
      directSupplyNet == roundTo10(Div(wholesalePrice, VatFactor))
  IN  [mainSupplyNet |-> mainSupplyNet,
       mainSupplyVatIncl |-> mainSupplyVatIncl,
       wholesalePrice |-> wholesalePrice,
       consumerPrice |-> consumerPrice,
       directSupplyVatIncl |-> roundTo10(Mul(directSupplyNet, VatFactor)),
       directSupplyNet |-> directSupplyNet,
       totalMargin |-> Sub(consumerPrice, input.costPrice)]

\* The chain with the operands of the wholesale denominator exchanged:
\* wholesaleMargin/100 - 1 in the place of 1 - wholesaleMargin/100.
calculatePricing_MarginFlipped(input) ==
  LET mainSupplyNet == roundTo10(Div(input.costPrice, Sub(One, Div(input.mainGpRate, Hundred))))
      mainSupplyVatIncl == Mul(mainSupplyNet, VatFactor)
      wholesalePrice == Div(mainSupplyVatIncl, Sub(Div(input.wholesaleMargin, Hundred), One))
      consumerPrice == roundTo10(Div(wholesalePrice, Sub(One, Div(input.consumerMargin, Hundred))))
      directSupplyNet == roundTo10(Div(wholesalePrice, VatFactor))
  IN  [mainSupplyNet |-> mainSupplyNet,
       mainSupplyVatIncl |-> mainSupplyVatIncl,
       wholesalePrice |-> wholesalePrice,
       consumerPrice |-> consumerPrice,
       directSupplyVatIncl |-> Mul(directSupplyNet, VatFactor),
       directSupplyNet |-> directSupplyNet,
       totalMargin |-> Sub(consumerPrice, input.costPrice)]

\* The chain with wholesalePrice rounded to 10 as well.
calculatePricing_RoundsWholesale(input) ==
  LET mainSupplyNet == roundTo10(Div(input.costPrice, Sub(One, Div(input.mainGpRate, Hundred))))
      mainSupplyVatIncl == Mul(mainSupplyNet, VatFactor)
      wholesalePrice == roundTo10(Div(mainSupplyVatIncl, Sub(One, Div(input.wholesaleMargin, Hundred))))
      consumerPrice == roundTo10(Div(wholesalePrice, Sub(One, Div(input.consumerMargin, Hundred))))
      directSupplyNet == roundTo10(Div(wholesalePrice, VatFactor))
  IN  [mainSupplyNet |-> mainSupplyNet,
       mainSupplyVatIncl |-> mainSupplyVatIncl,
       wholesalePrice |-> wholesalePrice,
       consumerPrice |-> consumerPrice,
       directSupplyVatIncl |-> Mul(directSupplyNet, VatFactor),
       directSupplyNet |-> directSupplyNet,
       totalMargin |-> Sub(consumerPrice, input.costPrice)]

calculatePricing(input) ==
  LET costPrice == input.costPrice
      mainGpRate == input.mainGpRate
      wholesaleMargin == input.wholesaleMargin
      consumerMargin == input.consumerMargin
      mainSupplyNet == roundTo10(Div(costPrice, Sub(One, Div(mainGpRate, Hundred))))
      mainSupplyVatIncl == Mul(mainSupplyNet, VatFactor)
      wholesalePrice == Div(mainSupplyVatIncl, Sub(One, Div(wholesaleMargin, Hundred)))
      consumerPrice == roundTo10(Div(wholesalePrice, Sub(One, Div(consumerMargin, Hundred))))
      directSupplyNet == roundTo10(Div(wholesalePrice, VatFactor))
      directSupplyVatIncl == Mul(directSupplyNet, VatFactor)
  IN  [mainSupplyNet |-> mainSupplyNet,
       mainSupplyVatIncl |-> mainSupplyVatIncl,
       wholesalePrice |-> wholesalePrice,
       consumerPrice |-> consumerPrice,
       directSupplyVatIncl |-> directSupplyVatIncl,
       directSupplyNet |-> directSupplyNet,
       totalMargin |-> Sub(consumerPrice, costPrice)]

\* The inverse with the division by 1.1 left out.
calculateGpFromTarget_NoVat(cost, target, wm, cm) ==
  LET wholesale == Mul(target, Sub(One, Div(cm, Hundred)))
      mainSupplyNet == Mul(wholesale, Sub(One, Div(wm, Hundred)))
  IN  IF Gt(mainSupplyNet, Zero)
      THEN Mul(Sub(One, Div(cost, mainSupplyNet)), Hundred)
      ELSE Zero

\* The inverse clamped at 0: no negative rate is returned.
calculateGpFromTarget_ClampsNegative(cost, target, wm, cm) ==
  LET wholesale == Mul(target, Sub(One, Div(cm, Hundred)))
      mainSupplyVatIncl == Mul(wholesale, Sub(One, Div(wm, Hundred)))
      mainSupplyNet == Div(mainSupplyVatIncl, VatFactor)
      rate == Mul(Sub(One, Div(cost, mainSupplyNet)), Hundred)
  IN  IF Gt(mainSupplyNet, Zero) /\ Gt(rate, Zero) THEN rate ELSE Zero

\* The inverse with mainSupplyNet rounded as the forward chain rounds it.
calculateGpFromTarget_RoundsNet(cost, target, wm, cm) ==
  LET wholesale == Mul(target, Sub(One, Div(cm, Hundred)))
      mainSupplyVatIncl == Mul(wholesale, Sub(One, Div(wm, Hundred)))
      mainSupplyNet == roundTo10(Div(mainSupplyVatIncl, VatFactor))
  IN  IF Gt(mainSupplyNet, Zero)
      THEN Mul(Sub(One, Div(cost, mainSupplyNet)), Hundred)
      ELSE Zero

calculateGpFromTarget(cost, target, wm, cm) ==
  LET wholesale == Mul(target, Sub(One, Div(cm, Hundred)))
      mainSupplyVatIncl == Mul(wholesale, Sub(One, Div(wm, Hundred)))
      mainSupplyNet == Div(mainSupplyVatIncl, VatFactor)
  IN  IF Gt(mainSupplyNet, Zero)
      THEN Mul(Sub(One, Div(cost, mainSupplyNet)), Hundred)
      ELSE Zero

\* ------------------------------------------------------------------------
\* App: the component state and its handlers
\* ------------------------------------------------------------------------

VARIABLES
  variant,        \* which source file runs: they differ in the defaults only
  input,          \* useState: PricingInput
  targetPrice,    \* useState: the target field's text
  result,         \* useState: PricingResult, or Null before the first refresh
  isReverseSync,  \* useRef: TRUE while the target field drives mainGpRate
  effectPending,  \* the useEffect on [refresh] is scheduled and has not run
  ev,             \* the last user event: the handler, its arguments, its newGp
  edits           \* number of user events so far

vars == <<variant, input, targetPrice, result, isReverseSync, effectPending, ev, edits>>

\* Longest session explored, in user events.
MaxEdits == 3

Null == [null |-> TRUE]

Variants == {"index.tsx", "part_000", "part_001"}

T_110000 == <<"1", "1", "0", "0", "0", "0">>

\* useState(...) of input: the defaults of each file.
DefaultInput(v) ==
  [productName |-> <<"d", "e", "f", "a", "u", "l", "t">>,
   costPrice |-> IF v = "part_001" THEN IntNum(50000) ELSE IntNum(55000),
   mainGpRate |-> IntNum(35),
   wholesaleMargin |-> IntNum(15),
   consumerMargin |-> IntNum(20)]

\* useState(...) of targetPrice: '' in index.tsx, '110000' elsewhere.
DefaultTargetPrice(v) == IF v = "index.tsx" THEN <<>> ELSE T_110000

NoEvent == [op |-> "none", name |-> "", value |-> <<>>, solved |-> FALSE, newGp |-> Zero]

\* What the user types.
NumericFields == {"costPrice", "mainGpRate", "wholesaleMargin", "consumerMargin"}
CostTexts == {<<"0">>, <<"1">>, <<"1", "0", "0", "0">>}
RateTexts == {<<"-", "1", "0">>, <<"8", "0">>, <<"1", "0", "0">>, <<"1", "2", "0">>}
WholesaleMarginTexts == {<<>>, <<"1", "0", "0">>, <<"1", "5", "0">>}
ConsumerMarginTexts == {<<>>, <<"-", "1", "0">>, <<"1", "0", "0">>}
NameTexts == {<<"A">>}
TargetTexts ==
  {<<>>, <<"-", "5">>, <<"0">>, <<"a", "b", "c">>, <<"1", "0", "0", "0">>,
   <<"1", "3", "6", "8", "9", "0">>, <<"1", "0", "0", "0", "0", "0", "0">>}

FieldTexts(name) ==
  CASE name = "productName" -> NameTexts
    [] name = "costPrice" -> CostTexts
    [] name = "mainGpRate" -> RateTexts
    [] name = "wholesaleMargin" -> WholesaleMarginTexts
    [] name = "consumerMargin" -> ConsumerMarginTexts

\* The page mounted with useRef(true): the target field drives from the start.
Init_ReverseAtStart ==
  /\ variant \in Variants
  /\ input = DefaultInput(variant)
  /\ targetPrice = DefaultTargetPrice(variant)
  /\ result = Null
  /\ isReverseSync = TRUE
  /\ effectPending = TRUE
  /\ ev = NoEvent
  /\ edits = 0

Init ==
  /\ variant \in Variants
  /\ input = DefaultInput(variant)
  /\ targetPrice = DefaultTargetPrice(variant)
  /\ result = Null
  /\ isReverseSync = FALSE
  /\ effectPending = TRUE
  /\ ev = NoEvent
  /\ edits = 0

\* refresh memoized with no dependencies: it keeps the input of the first render.
refresh_StaleClosure ==
  LET res == calculatePricing(DefaultInput(variant))
  IN  /\ result' = res
      /\ targetPrice' = IF ~isReverseSync THEN toString(res.consumerPrice)
                        ELSE targetPrice

\* refresh without the isReverseSync test: it always writes the target field.
refresh_AlwaysWrites ==
  LET res == calculatePricing(input)
  IN  /\ result' = res
      /\ targetPrice' = toString(res.consumerPrice)

\* refresh: recompute the result from input; write the target field unless
\* the target field is driving.
refresh ==
  LET res == calculatePricing(input)
  IN  /\ result' = res
      /\ targetPrice' = IF ~isReverseSync THEN toString(res.consumerPrice)
                        ELSE targetPrice

\* The effect with refresh memoized on [input, targetPrice]: a refresh that
\* changes the target field makes a new refresh and schedules the effect again.
Effect_DependsOnTarget ==
  /\ effectPending
  /\ refresh
  /\ effectPending' = (targetPrice' # targetPrice)
  /\ UNCHANGED <<variant, input, isReverseSync, ev, edits>>

\* useEffect(() => { refresh(); }, [refresh]): runs after the first render and
\* after every render in which input is a new object.
Effect ==
  /\ effectPending
  /\ refresh
  /\ effectPending' = FALSE
  /\ UNCHANGED <<variant, input, isReverseSync, ev, edits>>

\* onInputChange without isReverseSync.current = false.
onInputChange_KeepsFlag(name, value) ==
  /\ input' = [input EXCEPT ![name] =
                 IF name = "productName" THEN value ELSE Number(value)]
  /\ effectPending' = TRUE
  /\ UNCHANGED <<targetPrice, result, isReverseSync>>

\* onInputChange with e.target = {name, value}.
onInputChange(name, value) ==
  /\ isReverseSync' = FALSE
  /\ input' = [input EXCEPT ![name] =
                 IF name = "productName" THEN value ELSE Number(value)]
  /\ effectPending' = TRUE
  /\ UNCHANGED <<targetPrice, result>>

\* onTargetChange with isReverseSync.current = true moved above the guard.
onTargetChange_FlagBeforeGuard(val) ==
  LET num == Number(val)
      newGp == calculateGpFromTarget(input.costPrice, num,
                                     input.wholesaleMargin, input.consumerMargin)
  IN  /\ targetPrice' = val
      /\ isReverseSync' = TRUE
      /\ \/ /\ Falsy(num) \/ Le(num, Zero)
            /\ ev' = [op |-> "onTargetChange", name |-> "", value |-> val,
                      solved |-> FALSE, newGp |-> Zero]
            /\ UNCHANGED <<input, effectPending>>
         \/ /\ ~(Falsy(num) \/ Le(num, Zero))
            /\ input' = [input EXCEPT !.mainGpRate = parseFloat(toFixed2(newGp))]
            /\ effectPending' = TRUE
            /\ ev' = [op |-> "onTargetChange", name |-> "", value |-> val,
                      solved |-> TRUE, newGp |-> newGp]
      /\ UNCHANGED result

\* onTargetChange without toFixed(2): the rate is stored unrounded.
onTargetChange_Unrounded(val) ==
  LET num == Number(val)
      newGp == calculateGpFromTarget(input.costPrice, num,
                                     input.wholesaleMargin, input.consumerMargin)
  IN  /\ targetPrice' = val
      /\ \/ /\ Falsy(num) \/ Le(num, Zero)
            /\ ev' = [op |-> "onTargetChange", name |-> "", value |-> val,
                      solved |-> FALSE, newGp |-> Zero]
            /\ UNCHANGED <<input, isReverseSync, effectPending>>
         \/ /\ ~(Falsy(num) \/ Le(num, Zero))
            /\ isReverseSync' = TRUE
            /\ input' = [input EXCEPT !.mainGpRate = newGp]
            /\ effectPending' = TRUE
            /\ ev' = [op |-> "onTargetChange", name |-> "", value |-> val,
                      solved |-> TRUE, newGp |-> newGp]
      /\ UNCHANGED result

\* onTargetChange with e.target.value = val.
onTargetChange(val) ==
  LET num == Number(val)
      newGp == calculateGpFromTarget(input.costPrice, num,
                                     input.wholesaleMargin, input.consumerMargin)
  IN  /\ targetPrice' = val
      /\ \/ /\ Falsy(num) \/ Le(num, Zero)
            /\ ev' = [op |-> "onTargetChange", name |-> "", value |-> val,
                      solved |-> FALSE, newGp |-> Zero]
            /\ UNCHANGED <<input, isReverseSync, effectPending>>
         \/ /\ ~(Falsy(num) \/ Le(num, Zero))
            /\ isReverseSync' = TRUE
            /\ input' = [input EXCEPT !.mainGpRate = parseFloat(toFixed2(newGp))]
            /\ effectPending' = TRUE
            /\ ev' = [op |-> "onTargetChange", name |-> "", value |-> val,
                      solved |-> TRUE, newGp |-> newGp]
      /\ UNCHANGED result

\* Events delivered without waiting for the effect of the previous one.
Ready_NoFlush == result # Null /\ edits < MaxEdits

\* The page is rendered (if (!result) return null) and React has run the
\* effects of the previous event before it delivers the next one.
Ready == result # Null /\ ~effectPending /\ edits < MaxEdits

FieldEdit ==
  \E name \in NumericFields \cup {"productName"} : \E value \in FieldTexts(name) :
    /\ Ready
    /\ onInputChange(name, value)
    /\ ev' = [op |-> "onInputChange", name |-> name, value |-> value,
              solved |-> FALSE, newGp |-> Zero]
    /\ edits' = edits + 1
    /\ UNCHANGED variant

TargetEdit ==
  \E val \in TargetTexts :
    /\ Ready
    /\ onTargetChange(val)
    /\ edits' = edits + 1
    /\ UNCHANGED variant

\* The button with onClick={() => { refresh(); isReverseSync.current = false; }}.
RefreshClick_ClearsFlag ==
  /\ Ready
  /\ refresh
  /\ isReverseSync' = FALSE
  /\ ev' = [op |-> "refresh", name |-> "", value |-> <<>>,
            solved |-> FALSE, newGp |-> Zero]
  /\ edits' = edits + 1
  /\ UNCHANGED <<variant, input, effectPending>>

\* The button onClick={refresh}.
RefreshClick ==
  /\ Ready
  /\ refresh
  /\ ev' = [op |-> "refresh", name |-> "", value |-> <<>>,
            solved |-> FALSE, newGp |-> Zero]
  /\ edits' = edits + 1
  /\ UNCHANGED <<variant, input, isReverseSync, effectPending>>

Next == Effect \/ FieldEdit \/ TargetEdit \/ RefreshClick

Spec == Init /\ [][Next]_vars

\* ------------------------------------------------------------------------
\* The engine alone: calculatePricing and calculateGpFromTarget applied to
\* arguments drawn from the sets below.  input holds the arguments of
\* calculatePricing and result its value; targetPrice holds the text of the
\* target and ev.newGp the value of calculateGpFromTarget.
\* ------------------------------------------------------------------------

EngineCosts ==
  {IntNum(-1000), IntNum(-15), Zero, IntNum(15), IntNum(50000), IntNum(55000),
   IntNum(100000)}
EngineRates == {IntNum(-10), Zero, IntNum(35), Fin(911, 10), IntNum(100), IntNum(120)}
EngineWholesaleMargins == {Zero, IntNum(15), IntNum(50), IntNum(100), IntNum(150)}
EngineConsumerMargins == {IntNum(-10), IntNum(20), IntNum(50), IntNum(100), IntNum(150)}
EngineTargets ==
  {<<"1">>, <<"1", "2", "4", "4", "3", "0">>, <<"1", "3", "6", "8", "9", "0">>}

EngineInputs ==
  {[productName |-> <<>>, costPrice |-> c, mainGpRate |-> r,
    wholesaleMargin |-> w, consumerMargin |-> m] :
     c \in EngineCosts, r \in EngineRates,
     w \in EngineWholesaleMargins, m \in EngineConsumerMargins}

EngineInit ==
  /\ variant = "index.tsx"
  /\ input \in EngineInputs
  /\ targetPrice \in EngineTargets
  /\ result = Null
  /\ isReverseSync = FALSE
  /\ effectPending = FALSE
  /\ ev = NoEvent
  /\ edits = 0

ApplyForward ==
  /\ result = Null
  /\ result' = calculatePricing(input)
  /\ UNCHANGED <<variant, input, targetPrice, isReverseSync, effectPending, ev, edits>>

ApplyInverse ==
  /\ ev.op = "none"
  /\ ev' = [op |-> "calculateGpFromTarget", name |-> "", value |-> targetPrice,
            solved |-> TRUE,
            newGp |-> calculateGpFromTarget(input.costPrice, Number(targetPrice),
                                            input.wholesaleMargin, input.consumerMargin)]
  /\ UNCHANGED <<variant, input, targetPrice, result, isReverseSync, effectPending, edits>>

EngineNext == ApplyForward \/ ApplyInverse

EngineSpec == EngineInit /\ [][EngineNext]_vars

\* ------------------------------------------------------------------------
\* Properties
\* ------------------------------------------------------------------------

\* An edit has been fully processed: the page shows a result and no effect
\* is waiting.
Settled == result # Null /\ ~effectPending

AbsNum(x) == IF Sgn(x) < 0 THEN Neg(x) ELSE x

\* round10 as the specification words it: the nearest multiple of 10, a tie
\* rounded away from zero.
Round10HalfAway(x) ==
  IF ~IsFinite(x) THEN x
  ELSE LET m == MathRound(Div(AbsNum(x), Ten))
       IN  Mul(IF Sgn(x) < 0 THEN Neg(m) ELSE m, Ten)

\* The contract's precondition: costPrice >= 0 and all three rates < 100.
ForwardPre ==
  /\ Le(Zero, input.costPrice)
  /\ Lt(input.mainGpRate, Hundred)
  /\ Lt(input.wholesaleMargin, Hundred)
  /\ Lt(input.consumerMargin, Hundred)

\* The seven formulas of the contract, with the contract's round10.
ContractResult(in) ==
  LET net == Round10HalfAway(Div(in.costPrice, Sub(One, Div(in.mainGpRate, Hundred))))
      vat == Mul(net, VatFactor)
      whole == Div(vat, Sub(One, Div(in.wholesaleMargin, Hundred)))
      cons == Round10HalfAway(Div(whole, Sub(One, Div(in.consumerMargin, Hundred))))
      dnet == Round10HalfAway(Div(whole, VatFactor))
  IN  [mainSupplyNet |-> net,
       mainSupplyVatIncl |-> vat,
       wholesalePrice |-> whole,
       consumerPrice |-> cons,
       directSupplyVatIncl |-> Mul(dnet, VatFactor),
       directSupplyNet |-> dnet,
       totalMargin |-> Sub(cons, in.costPrice)]

\* C1: whenever costPrice >= 0 and the three rates are below 100, the result
\* the page holds for the current input is exactly the contract's chain:
\* round10 at mainSupplyNet, consumerPrice and directSupplyNet, the factor
\* 1.1 for the VAT-inclusive figures, totalMargin = consumerPrice - costPrice.
C1_ForwardContract ==
  (Settled /\ ForwardPre) => result = ContractResult(input)

\* C1 witness: the default chain of index.tsx has been computed, with both
\* roundings changing the value (55000/0.65 = 84615.38.. -> 84620).
C1_Witness ==
  /\ Settled /\ ForwardPre
  /\ input.costPrice = IntNum(55000)
  /\ result.mainSupplyNet = IntNum(84620)
  /\ result.consumerPrice = IntNum(136890)

\* A valid target edit and its recompute have been processed.
TargetSolved == ev.op = "onTargetChange" /\ ev.solved /\ Settled

\* C2's precondition on the input.
ReversePre ==
  /\ Gt(input.costPrice, Zero)
  /\ Lt(input.wholesaleMargin, Hundred)
  /\ Lt(input.consumerMargin, Hundred)

\* The factor from mainSupplyNet to the unrounded consumer price:
\* 1.1 / ((1 - wholesaleMargin/100) * (1 - consumerMargin/100)).
ChainFactor(in) ==
  Div(VatFactor, Mul(Sub(One, Div(in.wholesaleMargin, Hundred)),
                     Sub(One, Div(in.consumerMargin, Hundred))))

\* The rate that solves the unrounded chain for target t: (1 - cost*A/t)*100.
ExactRate(in, t) ==
  Mul(Sub(One, Div(Mul(in.costPrice, ChainFactor(in)), t)), Hundred)

\* The share of the deviation that rounding the rate to 2 decimals can
\* cause: a change of 0.005 in r moves cost/(1 - r/100) by at most
\* (t/A) / (200 * (100 - r)), hence the consumer price by t / (200 * (100 - r)).
RateRoundingTerm(in, t) ==
  Div(t, Mul(IntNum(200), Sub(Hundred, in.mainGpRate)))

\* C2 as stated: after a valid target edit t and its recompute (costPrice > 0,
\* both margins < 100) the recomputed consumerPrice is within 20 of t.
C2_Original ==
  (TargetSolved /\ ReversePre) =>
     Le(AbsNum(Sub(result.consumerPrice, Number(ev.value))), IntNum(20))

\* C2 amended: under the same precondition the stored rate r is within 0.005
\* of the exact solution (1 - cost*A/t)*100 of the unrounded chain, A being
\* the chain factor 1.1/((1 - wm/100)(1 - cm/100)); when r < 100 the
\* recomputed consumerPrice is within 5 + 5*A + t/(200*(100 - r)) of t (the
\* two rounding points, the first scaled by A, and the rounding of the rate
\* to 2 decimals); when the rounding carries r to 100 the recomputed
\* consumerPrice is infinite.
C2_Amended ==
  (TargetSolved /\ ReversePre) =>
     LET t == Number(ev.value)
         r == input.mainGpRate
         A == ChainFactor(input)
     IN  /\ Le(AbsNum(Sub(r, ExactRate(input, t))), Fin(1, 200))
         /\ Lt(r, Hundred) =>
              Le(AbsNum(Sub(result.consumerPrice, t)),
                 Add(Add(IntNum(5), Mul(IntNum(5), A)), RateRoundingTerm(input, t)))
         /\ ~Lt(r, Hundred) => r = Hundred /\ result.consumerPrice = PosInf

\* C2 witness: the default input of index.tsx, target 1000000: the rate is
\* stored as 91.1 and the recomputed consumerPrice is 999670, 330 away.
C2_Witness ==
  /\ TargetSolved /\ ReversePre
  /\ Number(ev.value) = IntNum(1000000)
  /\ input.mainGpRate = Fin(911, 10)
  /\ result.consumerPrice = IntNum(999670)

\* This step is onTargetChange(ev'.value) / a recompute (the effect or the
\* button).
TargetStep == ev'.op = "onTargetChange" /\ edits' = edits + 1
RecomputeStep ==
  \/ effectPending /\ ~effectPending'
  \/ ev'.op = "refresh" /\ edits' = edits + 1

InvalidTarget(raw) == Falsy(Number(raw)) \/ Le(Number(raw), Zero)

C3_Step ==
  (TargetStep /\ InvalidTarget(ev'.value)) =>
     /\ targetPrice' = ev'.value
     /\ input' = input
     /\ result' = result
     /\ isReverseSync' = isReverseSync
     /\ effectPending' = effectPending
     /\ ~ev'.solved

\* C3: onTargetChange(raw) with raw not a number or <= 0 writes raw to
\* targetPrice and nothing else: input, result and isReverseSync keep their
\* values, no reverse-solve runs and no recompute is scheduled.
C3_InvalidTargetNoop == [][C3_Step]_vars

\* C3 witness: "-5" typed after a valid target edit: the text is "-5", the
\* target field still drives, the rate is the one solved before.
C3_Witness ==
  /\ Settled
  /\ ev.op = "onTargetChange" /\ ~ev.solved
  /\ targetPrice = <<"-", "5">>
  /\ isReverseSync
  /\ input.mainGpRate = Fin(911, 10)

\* The call calculateGpFromTarget(100000, 1, 15, 20) has been made.
C4_Call ==
  /\ ev.op = "calculateGpFromTarget"
  /\ input.costPrice = IntNum(100000)
  /\ Number(ev.value) = One
  /\ input.wholesaleMargin = IntNum(15)
  /\ input.consumerMargin = IntNum(20)

\* C4 as stated: calculateGpFromTarget(100000, 1, 15, 20) returns 0.
C4_Original == C4_Call => ev.newGp = Zero

\* C4 amended: calculateGpFromTarget(100000, 1, 15, 20) returns
\* (1 - 100000/net)*100 with net = 1*0.8*0.85/1.1 > 0, that is
\* -274998300/17 (about -16176370.59): a finite negative number, not 0.
C4_Amended ==
  C4_Call => /\ ev.newGp = Fin(-274998300, 17)
             /\ Lt(ev.newGp, Zero)
             /\ IsFinite(ev.newGp)

C4_Witness == C4_Call /\ ev.newGp # Zero

\* C5: after onInputChange(name, value) and its recompute the target field
\* does not drive, input[name] is the parsed value and targetPrice is the
\* text of result.consumerPrice (which reads back as that number); and every
\* recompute made while the target field does not drive leaves targetPrice
\* equal to the text of the consumerPrice it computed.
C5_FieldEditSync ==
  /\ (ev.op = "onInputChange" /\ Settled) =>
       /\ ~isReverseSync
       /\ input[ev.name] = IF ev.name = "productName" THEN ev.value
                           ELSE Number(ev.value)
       /\ targetPrice = toString(result.consumerPrice)
       /\ IsFinite(result.consumerPrice) => Number(targetPrice) = result.consumerPrice
  /\ (ev.op \in {"none", "refresh"} /\ Settled /\ ~isReverseSync) =>
       targetPrice = toString(result.consumerPrice)

\* C5 witness: costPrice edited to 1000 after a target edit had set the rate
\* to 91.1; the target field shows the new consumerPrice.
C5_Witness ==
  /\ Settled
  /\ ev.op = "onInputChange" /\ ev.name = "costPrice"
  /\ input.costPrice = IntNum(1000)
  /\ input.mainGpRate = Fin(911, 10)
  /\ targetPrice = toString(result.consumerPrice)
  /\ IsFinite(result.consumerPrice)

C6_Step ==
  /\ (isReverseSync /\ RecomputeStep) => targetPrice' = targetPrice
  /\ (ev'.op = "onTargetChange" /\ ev'.solved /\ result' # Null /\ ~effectPending') =>
       targetPrice' = ev'.value

\* C6: a recompute made while the target field drives does not write
\* targetPrice, and after a valid onTargetChange(raw) and its recompute
\* targetPrice is raw.
C6_TargetTextKept == [][C6_Step]_vars

\* C6 witness: after a valid target edit and its recompute the text is what
\* was typed and the recomputed consumerPrice is another number.
C6_Witness ==
  /\ TargetSolved
  /\ targetPrice = ev.value
  /\ IsFinite(result.consumerPrice)
  /\ Number(targetPrice) # result.consumerPrice

\* r has at most 2 decimals.
TwoDecimals(r) == IsFinite(r) /\ 100 % r.d = 0

C7_Step ==
  (TargetStep /\ ~InvalidTarget(ev'.value)) =>
     LET g == calculateGpFromTarget(input.costPrice, Number(ev'.value),
                                    input.wholesaleMargin, input.consumerMargin)
         r == input'.mainGpRate
     IN  /\ isReverseSync'
         /\ TwoDecimals(r)
         /\ Le(AbsNum(Sub(r, g)), Fin(1, 200))
         /\ input'.productName = input.productName
         /\ input'.costPrice = input.costPrice
         /\ input'.wholesaleMargin = input.wholesaleMargin
         /\ input'.consumerMargin = input.consumerMargin

\* C7: a valid onTargetChange(raw) sets isReverseSync and stores in
\* input.mainGpRate the value of calculateGpFromTarget(costPrice, Number(raw),
\* wholesaleMargin, consumerMargin) rounded to 2 decimals (a number with at
\* most 2 decimals, within 0.005 of it); the other four fields are unchanged.
C7_ValidTargetEdit == [][C7_Step]_vars

\* C7 witness: a valid target edit whose solved rate had to be rounded.
C7_Witness ==
  /\ ev.op = "onTargetChange" /\ ev.solved
  /\ isReverseSync
  /\ input.mainGpRate # ev.newGp
  /\ TwoDecimals(input.mainGpRate)

C8_Step ==
  /\ result' # result => result' = calculatePricing(input) /\ input' = input
  /\ (result' # Null /\ ~effectPending') => result' = calculatePricing(input')

\* C8: the stored result changes only by being recomputed from the current
\* input, and whenever no recompute is pending it is calculatePricing(input).
C8_ResultIsFunctionOfInput == [][C8_Step]_vars

\* C8 witness: after edits of costPrice and of the target, the stored result
\* is the chain of the current input.
C8_Witness ==
  /\ TargetSolved
  /\ input.costPrice = IntNum(1000)
  /\ input.mainGpRate # IntNum(35)
  /\ result = calculatePricing(input)

\* C9: calculateGpFromTarget(cost, target, wm, cm) is (1 - cost/net)*100 for
\* net = target*(1 - cm/100)*(1 - wm/100)/1.1 (unrounded) when net > 0, and
\* exactly 0 when net <= 0.
C9_InverseFormula ==
  ev.op = "calculateGpFromTarget" =>
     LET t == Number(ev.value)
         net == Div(Mul(Mul(t, Sub(One, Div(input.consumerMargin, Hundred))),
                        Sub(One, Div(input.wholesaleMargin, Hundred))),
                    VatFactor)
     IN  IF Gt(net, Zero)
         THEN ev.newGp = Mul(Sub(One, Div(input.costPrice, net)), Hundred)
         ELSE ev.newGp = Zero

\* C9 witness: exactly one margin above 100 (wholesaleMargin 150): net < 0
\* and the value is 0.
C9_Witness ==
  /\ ev.op = "calculateGpFromTarget"
  /\ input.costPrice = IntNum(55000)
  /\ input.wholesaleMargin = IntNum(150)
  /\ input.consumerMargin = IntNum(20)
  /\ ev.newGp = Zero

\* C10: each VAT-inclusive figure is 1.1 times its net figure, which is a
\* multiple of 10 when finite; nothing is rounded after the multiplication.
C10_VatExact ==
  result # Null =>
     /\ result.mainSupplyVatIncl = Mul(result.mainSupplyNet, VatFactor)
     /\ result.directSupplyVatIncl = Mul(result.directSupplyNet, VatFactor)
     /\ IsFinite(result.mainSupplyNet) =>
          result.mainSupplyNet.d = 1 /\ result.mainSupplyNet.n % 10 = 0
     /\ IsFinite(result.directSupplyNet) =>
          result.directSupplyNet.d = 1 /\ result.directSupplyNet.n % 10 = 0

\* C10 witness: 84620 * 1.1 = 93082 and 99550 * 1.1 = 109505, neither a
\* multiple of 10.
C10_Witness ==
  /\ result # Null
  /\ result.mainSupplyNet = IntNum(84620)
  /\ result.mainSupplyVatIncl = IntNum(93082)
  /\ result.directSupplyVatIncl = IntNum(109505)


\* The six prices of a result (totalMargin is a difference, not a price).
Prices(r) ==
  {r.mainSupplyNet, r.mainSupplyVatIncl, r.wholesalePrice,
   r.consumerPrice, r.directSupplyNet, r.directSupplyVatIncl}

\* C11: for costPrice >= 0 and the three rates below 100, every price of the
\* result calculatePricing returns is at least 0: mainSupplyNet,
\* mainSupplyVatIncl, wholesalePrice, consumerPrice, directSupplyNet and
\* directSupplyVatIncl.
C11_NonNegativePrices ==
  (result # Null /\ ForwardPre) => \A p \in Prices(result) : Le(Zero, p)

\* C11 witness: a result within the precondition whose rate and consumer
\* margin are negative and whose prices are all positive (55000/1.1 = 50000).
C11_Witness ==
  /\ result # Null /\ ForwardPre
  /\ input.costPrice = IntNum(55000)
  /\ input.mainGpRate = IntNum(-10)
  /\ input.consumerMargin = IntNum(-10)
  /\ result.mainSupplyNet = IntNum(50000)
  /\ \A p \in Prices(result) : Gt(p, Zero)

IsMultipleOf10(x) == IsFinite(x) /\ x.d = 1 /\ x.n % 10 = 0

\* The three applications of roundTo10 behind a result: <<argument, value>>.
RoundingPoints ==
  {<<Div(input.costPrice, Sub(One, Div(input.mainGpRate, Hundred))),
     result.mainSupplyNet>>,
   <<Div(result.wholesalePrice, Sub(One, Div(input.consumerMargin, Hundred))),
     result.consumerPrice>>,
   <<Div(result.wholesalePrice, VatFactor), result.directSupplyNet>>}

\* C12 as stated: roundTo10(x) is the nearest multiple of 10 for every x, a
\* tie rounded away from zero, for negative x as well.
C12_Original ==
  result # Null => \A p \in RoundingPoints : p[2] = Round10HalfAway(p[1])

\* C12, amended: for every finite x, roundTo10(x) is the multiple N of 10
\* with N - 5 <= x < N + 5: the nearest multiple of 10, a tie rounded
\* towards plus infinity (Math.round), which is away from zero for x >= 0
\* and towards zero for x < 0 (-15 gives -10).  NaN and the infinities are
\* returned as they are.
C12_Amended ==
  result # Null =>
    \A p \in RoundingPoints :
      IF IsFinite(p[1])
      THEN /\ IsMultipleOf10(p[2])
           /\ Le(Sub(p[2], IntNum(5)), p[1])
           /\ Lt(p[1], Add(p[2], IntNum(5)))
      ELSE p[2] = p[1]

\* C12 witness: roundTo10 has been applied to the negative tie -15/(1 - 0)
\* and has returned -10, the multiple nearer to zero.
C12_Witness ==
  /\ result # Null
  /\ input.costPrice = IntNum(-15)
  /\ input.mainGpRate = Zero
  /\ result.mainSupplyNet = IntNum(-10)

\* The four numeric fields of the input are these integers.
IsInput(cost, rate, wm, cm) ==
  /\ input.costPrice = IntNum(cost)
  /\ input.mainGpRate = IntNum(rate)
  /\ input.wholesaleMargin = IntNum(wm)
  /\ input.consumerMargin = IntNum(cm)

\* Both functions have been applied, the inverse to the consumerPrice the
\* forward chain returned.
RoundTripDone ==
  /\ result # Null
  /\ ev.op = "calculateGpFromTarget"
  /\ Number(ev.value) = result.consumerPrice

\* C13: for costPrice 55000, mainGpRate 35, wholesaleMargin 15 and
\* consumerMargin 20, calculatePricing returns mainSupplyNet = 84620, and
\* calculateGpFromTarget(55000, that result's consumerPrice, 15, 20) returns
\* a rate within 0.5 of 35.
C13_DefaultRoundTrip ==
  (RoundTripDone /\ IsInput(55000, 35, 15, 20)) =>
    /\ result.mainSupplyNet = IntNum(84620)
    /\ Le(AbsNum(Sub(ev.newGp, IntNum(35))), Fin(1, 2))

\* C13 witness: the round trip has been made on the defaults; the consumer
\* price is 136890 and the rate that comes back is not 35 itself.
C13_Witness ==
  /\ RoundTripDone /\ IsInput(55000, 35, 15, 20)
  /\ result.consumerPrice = IntNum(136890)
  /\ ev.newGp = Fin(8146300, 232713)

\* C14: for costPrice 50000, mainGpRate 35, wholesaleMargin 15 and
\* consumerMargin 20 (the defaults of part_001), mainSupplyNet = 76920,
\* mainSupplyVatIncl = 84612, wholesalePrice = 84612/0.85 and
\* consumerPrice = 124430.
C14_DefaultChain50000 ==
  (Settled /\ IsInput(50000, 35, 15, 20)) =>
    /\ result.mainSupplyNet = IntNum(76920)
    /\ result.mainSupplyVatIncl = IntNum(84612)
    /\ result.wholesalePrice = Div(IntNum(84612), Fin(85, 100))
    /\ result.consumerPrice = IntNum(124430)

\* C14 witness: part_001 has mounted and computed the chain of its default
\* input; the page shows 124430 in the target field.
C14_Witness ==
  /\ variant = "part_001" /\ edits = 0 /\ Settled
  /\ IsInput(50000, 35, 15, 20)
  /\ result.wholesalePrice = Fin(1692240, 17)
  /\ targetPrice = <<"1", "2", "4", "4", "3", "0">>

\* C15: at the start isReverseSync is false (the last edit source is the
\* input fields); once the first refresh has run and before any edit, the
\* target field holds either its seed or the text of the consumerPrice
\* computed from the default input; and no edit is accepted before the first
\* refresh has produced a result.
C15_Startup ==
  /\ edits = 0 => ~isReverseSync
  /\ (edits = 0 /\ Settled) =>
       /\ result = calculatePricing(DefaultInput(variant))
       /\ targetPrice \in {DefaultTargetPrice(variant),
                           toString(result.consumerPrice)}
  /\ result = Null => (edits = 0 /\ ev = NoEvent /\ input = DefaultInput(variant))

\* C15 witness: part_000 has mounted and run its first refresh, no edit has
\* been made, and the seed 110000 has given way to the computed 136890.
C15_Witness ==
  /\ variant = "part_000" /\ edits = 0 /\ Settled
  /\ ~isReverseSync
  /\ targetPrice = <<"1", "3", "6", "8", "9", "0">>
  /\ targetPrice # DefaultTargetPrice(variant)

FieldStep == ev'.op = "onInputChange" /\ edits' = edits + 1

C16_Step ==
  /\ RecomputeStep =>
       /\ input' = input
       /\ isReverseSync' = isReverseSync
       /\ ~effectPending'
  /\ edits' = edits => (effectPending /\ ~effectPending')
  /\ (effectPending' /\ ~effectPending) => (FieldStep \/ (TargetStep /\ ev'.solved))
  /\ input' # input => (FieldStep \/ (TargetStep /\ ev'.solved))
  /\ input'.mainGpRate # input.mainGpRate =>
       \/ FieldStep /\ ev'.name = "mainGpRate"
       \/ TargetStep /\ ev'.solved

\* C16: no feedback loop.  A refresh never writes input (so never
\* mainGpRate) nor isReverseSync and schedules no further refresh, also when
\* it changes the target field; a step that is not a user event is the one
\* pending effect; an effect is scheduled, and input written, only by
\* onInputChange or by a valid onTargetChange.  So every edit is followed by
\* at most one refresh, and then nothing runs until the next edit.
C16_NoFeedbackLoop == [][C16_Step]_vars

\* C16 witness: a costPrice edit has been processed; its one refresh has
\* rewritten the target field, and nothing is pending.
C16_Witness ==
  /\ Settled
  /\ ev.op = "onInputChange" /\ ev.name = "costPrice"
  /\ input.costPrice = IntNum(1000)
  /\ targetPrice = toString(result.consumerPrice)
  /\ result.consumerPrice # calculatePricing(DefaultInput(variant)).consumerPrice

\* C17: calculatePricing is only ever called with mainGpRate in [-10, 80],
\* never with a rate that makes the denominator 1 - mainGpRate/100 zero or
\* negative: the result the page holds was computed from such a rate.
C17_RateGuarded ==
  Settled =>
    /\ Le(IntNum(-10), input.mainGpRate)
    /\ Le(input.mainGpRate, IntNum(80))
    /\ Gt(Sub(One, Div(input.mainGpRate, Hundred)), Zero)

\* C18: for costPrice >= 0, wholesaleMargin and consumerMargin below 100 and
\* a valid target, the mainGpRate a target edit writes is strictly below 100,
\* so the refresh that follows divides by a positive denominator and every
\* price of the result is finite.
C18_SolvedRateBelow100 ==
  (TargetSolved /\ Le(Zero, input.costPrice)
     /\ Lt(input.wholesaleMargin, Hundred) /\ Lt(input.consumerMargin, Hundred)) =>
    /\ Lt(input.mainGpRate, Hundred)
    /\ \A p \in Prices(result) : IsFinite(p)

\* C19 as stated, for the first step after a target edit: the field holds
\* the typed text raw, valid or not, and a step that is neither a field edit
\* nor another target edit (the effect, the refresh button) leaves it.
C19_OriginalStep ==
  (ev.op = "onTargetChange" /\ targetPrice = ev.value /\ ~TargetStep /\ ~FieldStep) =>
    targetPrice' = targetPrice

C19_Original == [][C19_OriginalStep]_vars

C19_Step ==
  /\ TargetStep =>
       /\ targetPrice' = ev'.value
       /\ (ev'.solved \/ isReverseSync) => isReverseSync'
       /\ (~ev'.solved /\ ~isReverseSync) => ~isReverseSync'
  /\ (isReverseSync /\ ~TargetStep /\ ~FieldStep) =>
       /\ targetPrice' = targetPrice
       /\ isReverseSync'
  /\ (~isReverseSync /\ RecomputeStep) =>
       targetPrice' = toString(result'.consumerPrice)

\* C19, amended: every target edit puts the typed text in the field.  From a
\* valid target edit until the next field edit (isReverseSync set) the field
\* holds the text typed last, also after invalid target edits and after any
\* refresh in between.  An invalid text typed while isReverseSync is not set
\* does not set it, and the next refresh replaces that text by the text of
\* consumerPrice.
C19_Amended == [][C19_Step]_vars

\* C19 witness: a valid target edit, then the invalid text abc, then the
\* refresh button: the field still holds abc.
C19_Witness ==
  /\ isReverseSync /\ Settled
  /\ ev.op = "refresh"
  /\ targetPrice = <<"a", "b", "c">>

\* C20: rounding happens at exactly three points.  For costPrice >= 0 and the
\* three rates below 100, mainSupplyNet, consumerPrice and directSupplyNet
\* are integer multiples of 10, while wholesalePrice and the two
\* VAT-inclusive figures are not rounded: wholesalePrice is exactly
\* mainSupplyVatIncl / (1 - wholesaleMargin/100), and each VAT-inclusive
\* figure is exactly 1.1 times its net figure.
C20_ThreeRoundingPoints ==
  (result # Null /\ ForwardPre) =>
    /\ IsMultipleOf10(result.mainSupplyNet)
    /\ IsMultipleOf10(result.consumerPrice)
    /\ IsMultipleOf10(result.directSupplyNet)
    /\ result.wholesalePrice =
         Div(result.mainSupplyVatIncl, Sub(One, Div(input.wholesaleMargin, Hundred)))
    /\ Div(result.mainSupplyVatIncl, VatFactor) = result.mainSupplyNet
    /\ Div(result.directSupplyVatIncl, VatFactor) = result.directSupplyNet

\* C20 witness: a result within the precondition whose three unrounded
\* figures are not multiples of 10, wholesalePrice not even an integer
\* (84620 * 1.1 / 0.85 = 1861640/17).
C20_Witness ==
  /\ result # Null /\ ForwardPre
  /\ result.wholesalePrice = Fin(1861640, 17)
  /\ ~IsMultipleOf10(result.mainSupplyVatIncl)
  /\ ~IsMultipleOf10(result.directSupplyVatIncl)
  /\ IsMultipleOf10(result.consumerPrice)

\* The numeric fields of two inputs agree.
SameNumbers(a, b) == \A f \in NumericFields : a[f] = b[f]

\* The handler step of a productName edit, and the effect that follows it.
NameStep == FieldStep /\ ev'.name = "productName"
NameRecompute ==
  /\ ev.op = "onInputChange" /\ ev.name = "productName"
  /\ effectPending /\ ~effectPending'

\* What C21 and its amendment share: the edit writes productName and nothing
\* else of input, and neither it nor its refresh changes the result.
C21_Frame ==
  /\ NameStep =>
       /\ input'.productName = ev'.value
       /\ SameNumbers(input', input)
       /\ result' = result
       /\ targetPrice' = targetPrice
  /\ NameRecompute =>
       /\ input' = input
       /\ result' = result

\* C21 as stated: after a productName edit and its refresh the numeric
\* fields, the result and the target field's text are what they were before
\* the edit, whether or not the target field was driving.
C21_Original ==
  [][C21_Frame /\ (NameRecompute => targetPrice' = targetPrice)]_vars

\* C21, amended: a productName edit and its refresh leave the numeric fields
\* and the result as they were, but the edit clears isReverseSync like every
\* field edit, so its refresh writes the text of consumerPrice into the
\* target field: the field keeps its text only if it already held that text,
\* and a text typed into it is replaced.
C21_Amended ==
  [][/\ C21_Frame
     /\ NameStep => ~isReverseSync'
     /\ NameRecompute =>
          /\ ~isReverseSync'
          /\ targetPrice' = toString(result.consumerPrice)]_vars

\* C21 witness: on the defaults of index.tsx the target 1000000 was typed
\* (rate 91.1, consumerPrice 999670), then a productName; the name edit's
\* refresh has replaced the typed 1000000 by 999670.
C21_Witness ==
  /\ Settled
  /\ ev.op = "onInputChange" /\ ev.name = "productName"
  /\ input.productName = ev.value
  /\ input.costPrice = IntNum(55000)
  /\ input.mainGpRate = Fin(911, 10)
  /\ result.consumerPrice = IntNum(999670)
  /\ targetPrice = <<"9", "9", "9", "6", "7", "0">>

\* A press of the refresh button, and a press that follows another press
\* with no edit in between.
ClickStep == ev'.op = "refresh" /\ edits' = edits + 1
RepeatedClickStep == ev.op = "refresh" /\ ClickStep

C22_Step ==
  /\ ClickStep =>
       /\ input' = input
       /\ isReverseSync' = isReverseSync
       /\ result' = result
       /\ ~effectPending'
  /\ RepeatedClickStep => targetPrice' = targetPrice

\* C22: refresh is idempotent on the page's state.  A press of the button
\* leaves input, isReverseSync and the result (already computed from input)
\* as they are, and a press that follows another press with no edit in
\* between leaves the target field's text as well: nothing drifts in
\* mainGpRate or consumerPrice.
C22_RefreshIdempotent == [][C22_Step]_vars

\* C22 witness: the button has been pressed as the third event after the
\* target 1000000 was typed on the defaults of index.tsx; the rate is still
\* 91.1, the consumerPrice 999670 and the field still shows 1000000.
C22_Witness ==
  /\ Settled /\ edits = 3
  /\ ev.op = "refresh"
  /\ isReverseSync
  /\ input.costPrice = IntNum(55000)
  /\ input.mainGpRate = Fin(911, 10)
  /\ result.consumerPrice = IntNum(999670)
  /\ targetPrice = <<"1", "0", "0", "0", "0", "0", "0">>

\* The effect scheduled by the last event runs.
EffectOf(op) == ev.op = op /\ effectPending /\ ~effectPending'

C23_Step ==
  /\ edits' = edits + 1 => Settled
  /\ EffectOf("onTargetChange") =>
       /\ ev.solved /\ isReverseSync
       /\ targetPrice = ev.value
       /\ input.mainGpRate = parseFloat(toFixed2(ev.newGp))
       /\ result' = calculatePricing(input)
       /\ targetPrice' = targetPrice
  /\ EffectOf("onInputChange") =>
       /\ ~isReverseSync
       /\ input[ev.name] =
            IF ev.name = "productName" THEN ev.value ELSE Number(ev.value)
       /\ result' = calculatePricing(input)
       /\ targetPrice' = toString(result'.consumerPrice)

\* C23: every edit is processed together with its refresh.  An event is
\* accepted only when the refresh of the previous one has run; the refresh an
\* edit schedules reads the isReverseSync and the input that same edit wrote;
\* so the refresh of a target edit never overwrites the target field, and the
\* refresh of a field edit always leaves in it the text of consumerPrice, in
\* whatever order target edits and field edits follow one another.
C23_EditAtomic == [][C23_Step]_vars

\* C23 witness: a target edit (1000000, rate 91.1) followed by a costPrice
\* edit (1000), each with its refresh: the field shows the consumerPrice of
\* the input both edits made, and isReverseSync is that of the last edit.
C23_Witness ==
  /\ Settled /\ edits = 2
  /\ ev.op = "onInputChange" /\ ev.name = "costPrice"
  /\ input.costPrice = IntNum(1000)
  /\ input.mainGpRate = Fin(911, 10)
  /\ ~isReverseSync
  /\ result = calculatePricing(input)
  /\ targetPrice = toString(result.consumerPrice)
====
